---- MODULE Spec2Model ----
(***************************************************************************)
(* Model of the SEARCH/REPLACE patch engine of src/code/output_format.py.  *)
(*                                                                         *)
(* A text is a sequence of tokens.  A token is either one character        *)
(* ("a", "b", " ", "\n") or one of the fixed literals the regular          *)
(* expressions of the source look for: the code fence of three backticks,  *)
(* "rust", "verus", "python", "<<<<<<<", "SEARCH", "=======", ">>>>>>>",   *)
(* "REPLACE".  Offsets into a text are 0-based, as in the source; TLA+     *)
(* sequences are 1-based, so the token at offset p is s[p + 1].            *)
(***************************************************************************)
EXTENDS Integers, Sequences, FiniteSets

VARIABLES pc,             \* position of the call: start, parsed, apply, done
          original_code,  \* argument of apply_search_replace_format
          llm_response,   \* argument of apply_search_replace_format
          blocks,         \* the edit blocks the response was written from
          operations,     \* result of parse_search_replace_response
          modified_code,  \* accumulator of apply_search_replace_operations
          idx,            \* number of operations the apply loop has consumed
          outcome         \* the returned (text, success, message)

vars == <<pc, original_code, llm_response, blocks, operations, modified_code,
          idx, outcome>>

----------------------------------------------------------------------------
(* Bounds of the checked inputs. *)

MaxCodeLen == 3
MaxSearchLen == 2
MaxReplaceLen == 2
MaxOrigLen == 2
MaxOps == 2
MaxFenceLen == 2
MaxSectionLines == 2
MaxIndentCodeLen == 2
MaxIndentReplaceLen == 4

----------------------------------------------------------------------------
(* Tokens. *)

NL == "\n"
SP == " "
\* The code fence, three backticks (a TLA+ string cannot hold a backtick).
FENCE == "[fence]"
OPENM == "<<<<<<<"
MIDM == "======="
CLOSEM == ">>>>>>>"

\* Characters matched by \s and removed by str.strip / str.lstrip.
Whitespace == {" ", "\n", "\t"}

Min(S) == CHOOSE x \in S : \A y \in S : x <= y
Max(S) == CHOOSE x \in S : \A y \in S : x >= y

\* All texts over alphabet A of length at most n.
TextsUpTo(A, n) == UNION {[1..k -> A] : k \in 0..n}

----------------------------------------------------------------------------
(* Built-in string operations used by the source. *)

\* s[a:b] for 0 <= a, offsets clipped as Python clips them.
Slice(s, a, b) == SubSeq(s, a + 1, IF b > Len(s) THEN Len(s) ELSE b)

\* s occurs in t at offset p.
OccursAt(t, s, p) ==
    /\ p >= 0
    /\ p + Len(s) <= Len(t)
    /\ \A k \in 1..Len(s) : t[p + k] = s[k]

\* str.find(sub, start): lowest offset >= start of an occurrence, or -1.
find(code, sub, start) ==
    LET P == {p \in start..Len(code) : OccursAt(code, sub, p)}
    IN  IF P = {} THEN -1 ELSE Min(P)

\* sub in code
In(sub, code) == find(code, sub, 0) # -1

\* str.replace(old, new, 1)
replace_first(code, old, new) ==
    LET pos == find(code, old, 0)
    IN  IF pos = -1 THEN code
        ELSE Slice(code, 0, pos) \o new \o Slice(code, pos + Len(old), Len(code))

RECURSIVE lstrip(_)
lstrip(s) ==
    IF s # <<>> /\ Head(s) \in Whitespace THEN lstrip(Tail(s)) ELSE s

RECURSIVE rstrip(_)
rstrip(s) ==
    IF s # <<>> /\ s[Len(s)] \in Whitespace
    THEN rstrip(SubSeq(s, 1, Len(s) - 1)) ELSE s

strip(s) == rstrip(lstrip(s))

\* str.splitlines(): a final line terminator opens no further line.
RECURSIVE splitlines(_)
splitlines(s) ==
    IF s = <<>> THEN <<>>
    ELSE LET pos == find(s, <<NL>>, 0)
         IN  IF pos = -1 THEN <<s>>
             ELSE <<Slice(s, 0, pos)>> \o splitlines(Slice(s, pos + 1, Len(s)))

\* '\n'.join(lines)
RECURSIVE join(_)
join(lines) ==
    IF lines = <<>> THEN <<>>
    ELSE IF Len(lines) = 1 THEN lines[1]
    ELSE lines[1] \o <<NL>> \o join(Tail(lines))

\* ' ' * n
spaces(n) == [k \in 1..n |-> SP]

----------------------------------------------------------------------------
(* SearchReplaceOperation *)

SearchReplaceOperation(search_text, replace_text) ==
    [search_text |-> search_text, replace_text |-> replace_text]

----------------------------------------------------------------------------
(* SearchReplaceFormatter: the applicator. *)

\* The while loop of _find_all_matches, from offset start on.
RECURSIVE find_from(_, _, _)
find_from(code, search_text, start) ==
    LET pos == find(code, search_text, start)
    IN  IF pos = -1 THEN <<>>
        ELSE <<pos>> \o find_from(code, search_text, pos + 1)

_find_all_matches(code, search_text) == find_from(code, search_text, 0)

\* A variant that takes the last occurrence instead of the first.
_select_best_match_last(code, matches) ==
    IF matches # <<>> THEN matches[Len(matches)] ELSE 0

_select_best_match(code, matches) ==
    IF matches # <<>> THEN matches[1] ELSE 0

_replace_at_position(code, op, position) ==
    LET before == Slice(code, 0, position)
        after == Slice(code, position + Len(op.search_text), Len(code))
    IN  before \o op.replace_text \o after

\* The inner loop of the window scan: every search line equals, stripped,
\* the code line at the same place of the window that starts at line i.
window_matches(code_lines, search_lines, i) ==
    \A j \in 0..(Len(search_lines) - 1) :
        strip(search_lines[j + 1]) = strip(code_lines[i + j + 1])

\* The outer loop of the window scan: the matching line indices, ascending.
RECURSIVE scan_windows(_, _, _)
scan_windows(code_lines, search_lines, i) ==
    IF i >= Len(code_lines) - Len(search_lines) + 1 THEN <<>>
    ELSE (IF window_matches(code_lines, search_lines, i) THEN <<i>> ELSE <<>>)
         \o scan_windows(code_lines, search_lines, i + 1)

\* A variant that takes the last window instead of the first.
_select_best_line_match_last(code_lines, matches, search_lines) ==
    IF matches # <<>> THEN matches[Len(matches)] ELSE 0

_select_best_line_match(code_lines, matches, search_lines) ==
    IF matches # <<>> THEN matches[1] ELSE 0

\* Leading-whitespace width of a line: len(line) - len(line.lstrip()).
indent_of(line) == Len(line) - Len(lstrip(line))

\* A variant that drops the own indentation of the later lines.
reindent_line_flat(replace_lines, k, base_indent) ==
    LET line == replace_lines[k + 1]
    IN  IF strip(line) = <<>> THEN line
        ELSE spaces(base_indent) \o lstrip(line)

\* The re-indentation of replace_lines[k] (k is 0-based).
reindent_line(replace_lines, k, base_indent) ==
    LET line == replace_lines[k + 1]
    IN  IF strip(line) = <<>> THEN line
        ELSE IF k = 0 THEN spaces(base_indent) \o lstrip(line)
        ELSE spaces(base_indent + indent_of(line)) \o lstrip(line)

_replace_at_line_index(code_lines, op, line_index) ==
    LET search_lines == splitlines(op.search_text)
        base_indent == indent_of(code_lines[line_index + 1])
        replace_lines == splitlines(op.replace_text)
        new_lines == [k \in 1..Len(replace_lines) |->
                         reindent_line(replace_lines, k - 1, base_indent)]
        spliced == SubSeq(code_lines, 1, line_index)
                   \o new_lines
                   \o SubSeq(code_lines, line_index + Len(search_lines) + 1,
                             Len(code_lines))
    IN  join(spliced)

_apply_with_normalized_whitespace(code, op) ==
    LET search_lines == splitlines(op.search_text)
        code_lines == splitlines(code)
        matches == scan_windows(code_lines, search_lines, 0)
    IN  IF matches = <<>> THEN code
        ELSE _replace_at_line_index(code_lines, op,
                 _select_best_line_match(code_lines, matches, search_lines))

_apply_single_operation(code, op) ==
    IF In(op.search_text, code)
    THEN LET matches == _find_all_matches(code, op.search_text)
         IN  IF Len(matches) > 1
             THEN _replace_at_position(code, op, _select_best_match(code, matches))
             ELSE replace_first(code, op.search_text, op.replace_text)
    ELSE _apply_with_normalized_whitespace(code, op)

\* The loop of apply_search_replace_operations over the first n operations.
RECURSIVE apply_prefix(_, _, _)
apply_prefix(original, ops, n) ==
    IF n = 0 THEN original
    ELSE _apply_single_operation(apply_prefix(original, ops, n - 1), ops[n])

apply_search_replace_operations(original, ops) ==
    apply_prefix(original, ops, Len(ops))

----------------------------------------------------------------------------
(* SearchReplaceFormatter: the validator. *)

\* The body of the validator's loop for one operation: found or not.
op_found(original, op) ==
    \/ In(op.search_text, original)
    \/ LET search_lines == splitlines(op.search_text)
           code_lines == splitlines(original)
       IN  \E j \in 0..(Len(code_lines) - Len(search_lines)) :
               window_matches(code_lines, search_lines, j)

\* (valid, message); the message of a failure carries the 1-based index of
\* the first operation that was not found.
validate_operations(original, ops) ==
    LET bad == {i \in 1..Len(ops) : ~op_found(original, ops[i])}
    IN  IF bad = {} THEN [valid |-> TRUE, message |-> <<"Valid">>]
        ELSE [valid |-> FALSE,
              message |-> <<"SEARCH block not found", Min(bad)>>]

----------------------------------------------------------------------------
(* The regular expressions of the parser and of the code-block fallback.   *)
(* Positions here are 1-based indices of tokens.                           *)

\* The first position >= p whose token is not whitespace (Len + 1 at the end):
\* where a greedy \s* that starts at p stops.
RECURSIVE skip_ws(_, _)
skip_ws(t, p) ==
    IF p <= Len(t) /\ t[p] \in Whitespace THEN skip_ws(t, p + 1) ELSE p

Tok(t, p) == IF p >= 1 /\ p <= Len(t) THEN t[p] ELSE "<end>"

\* The positions a '\s*\n' that starts at p can end at: the newlines of the
\* whitespace run at p.  The greedy \s* tries the last of them first.
newline_ends(t, p) == {e \in p..(skip_ws(t, p) - 1) : t[e] = NL}

\* re.sub(r'```(?:rust|verus|python)?\s*\n?|```\s*$', '', response): at a
\* fence the first alternative always matches, and takes the fence, a
\* language tag and all the whitespace behind it.
RECURSIVE strip_fences(_)
strip_fences(t) ==
    IF t = <<>> THEN <<>>
    ELSE IF Head(t) = FENCE
    THEN LET q == IF Tok(t, 2) \in {"rust", "verus", "python"} THEN 3 ELSE 2
         IN  strip_fences(SubSeq(t, skip_ws(t, q), Len(t)))
    ELSE <<Head(t)>> \o strip_fences(Tail(t))

\* '\n>{7}\s*REPLACE' matches at position c.
close_at(t, c) ==
    /\ Tok(t, c) = NL
    /\ Tok(t, c + 1) = CLOSEM
    /\ Tok(t, skip_ws(t, c + 2)) = "REPLACE"

\* Where the '\s*\n' behind the '=======' at m + 1 can end so that the rest
\* of the pattern still matches: a close marker follows somewhere.
mid_ends(t, m) ==
    {e \in newline_ends(t, m + 2) : \E c \in (e + 1)..Len(t) : close_at(t, c)}

\* '\n={7}\s*\n(.*?)\n>{7}\s*REPLACE' matches at position m.
mid_at(t, m) ==
    /\ Tok(t, m) = NL
    /\ Tok(t, m + 1) = MIDM
    /\ mid_ends(t, m) # {}

\* Where the '\s*\n' behind SEARCH (at position q) can end so that the rest
\* of the pattern still matches.
open_ends(t, q) ==
    {e \in newline_ends(t, q + 1) : \E m \in (e + 1)..Len(t) : mid_at(t, m)}

\* The pattern matches with its first character at position p.
match_at(t, p) ==
    /\ Tok(t, p) = OPENM
    /\ Tok(t, skip_ws(t, p + 1)) = "SEARCH"
    /\ open_ends(t, skip_ws(t, p + 1)) # {}

\* The match at p, as the backtracking matcher finds it: the greedy \s*
\* take the longest run that lets the rest match, the lazy groups the
\* shortest text.  [search_text, replace_text, last: position of REPLACE].
the_match(t, p) ==
    LET q == skip_ws(t, p + 1)
        e1 == Max(open_ends(t, q))
        m == Min({x \in (e1 + 1)..Len(t) : mid_at(t, x)})
        e2 == Max(mid_ends(t, m))
        c == Min({x \in (e2 + 1)..Len(t) : close_at(t, x)})
    IN  [search_text |-> SubSeq(t, e1 + 1, m - 1),
         replace_text |-> SubSeq(t, e2 + 1, c - 1),
         last |-> skip_ws(t, c + 2)]

\* re.finditer: the non-overlapping matches from position p on, leftmost
\* first, each as a SearchReplaceOperation.
RECURSIVE finditer(_, _)
finditer(t, p) ==
    LET starts == {x \in p..Len(t) : match_at(t, x)}
    IN  IF starts = {} THEN <<>>
        ELSE LET g == the_match(t, Min(starts))
             IN  <<SearchReplaceOperation(g.search_text, g.replace_text)>>
                 \o finditer(t, g.last + 1)

parse_search_replace_response(response) ==
    finditer(strip_fences(response), 1)

\* re.findall(r'```(?:rust|verus)?\s*\n(.*?)```', response, re.DOTALL): the
\* groups of the matches from position p on.
block_start(t, p) == IF Tok(t, p + 1) \in {"rust", "verus"} THEN p + 2 ELSE p + 1

block_ends(t, p) ==
    {e \in newline_ends(t, block_start(t, p)) :
        \E c \in (e + 1)..Len(t) : t[c] = FENCE}

RECURSIVE code_blocks_from(_, _)
code_blocks_from(t, p) ==
    LET starts == {x \in p..Len(t) : t[x] = FENCE /\ block_ends(t, x) # {}}
    IN  IF starts = {} THEN <<>>
        ELSE LET x == Min(starts)
                 e == Max(block_ends(t, x))
                 c == Min({y \in (e + 1)..Len(t) : t[y] = FENCE})
             IN  <<SubSeq(t, e + 1, c - 1)>> \o code_blocks_from(t, c + 1)

findall_code_blocks(response) == code_blocks_from(response, 1)

----------------------------------------------------------------------------
(* Responses, written as get_format_instructions asks for them. *)

\* Each line followed by its line terminator.
RECURSIVE lines_nl(_)
lines_nl(lines) ==
    IF lines = <<>> THEN <<>>
    ELSE lines[1] \o <<NL>> \o lines_nl(Tail(lines))

\* One edit block: open marker line, search lines, dividing line, replace
\* lines, close marker line.
render_block(b) ==
    <<OPENM, SP, "SEARCH", NL>> \o lines_nl(b.search_lines)
    \o <<MIDM, NL>> \o lines_nl(b.replace_lines)
    \o <<CLOSEM, SP, "REPLACE">>

RECURSIVE render_blocks(_)
render_blocks(bs) ==
    IF bs = <<>> THEN <<>>
    ELSE IF Len(bs) = 1 THEN render_block(bs[1])
    ELSE render_block(bs[1]) \o <<NL>> \o render_blocks(Tail(bs))

\* A body wrapped in a code fence that carries the language tag, if any.
fenced(tag, body) == <<FENCE>> \o tag \o <<NL>> \o body \o <<NL, FENCE>>

\* Sequences of lo..hi elements of S.
SeqsOf(S, lo, hi) == UNION {[1..k -> S] : k \in lo..hi}

BlocksOf(Sections) == [search_lines : Sections, replace_lines : Sections]

----------------------------------------------------------------------------
(* apply_search_replace_format, one action per step of its body. *)

NoOutcome == [text |-> <<>>, success |-> FALSE, message |-> <<>>]

Outcome(text, success, message) ==
    [text |-> text, success |-> success, message |-> message]

\* operations = parse_search_replace_response(llm_response)
Parse ==
    /\ pc = "start"
    /\ operations' = parse_search_replace_response(llm_response)
    /\ pc' = "parsed"
    /\ UNCHANGED <<original_code, llm_response, blocks, modified_code, idx,
                   outcome>>

\* if not operations: the code-block fallback, or nothing found.
Fallback ==
    /\ pc = "parsed"
    /\ operations = <<>>
    /\ LET code_blocks == findall_code_blocks(llm_response)
       IN  outcome' =
             IF code_blocks # <<>>
             THEN Outcome(strip(code_blocks[1]), TRUE,
                          <<"Fallback to code block extraction">>)
             ELSE Outcome(original_code, FALSE,
                          <<"No SEARCH/REPLACE operations or code blocks found">>)
    /\ pc' = "done"
    /\ UNCHANGED <<original_code, llm_response, blocks, operations,
                   modified_code, idx>>

\* A variant whose validation failure returns the text with the operations
\* applied instead of the original text.
Validate_ReturnsModified ==
    /\ pc = "parsed"
    /\ operations # <<>>
    /\ LET v == validate_operations(original_code, operations)
       IN  IF ~v.valid
           THEN /\ outcome' = Outcome(
                       apply_search_replace_operations(original_code, operations),
                       FALSE,
                       <<"Invalid SEARCH/REPLACE operations">> \o v.message)
                /\ pc' = "done"
                /\ UNCHANGED <<modified_code, idx>>
           ELSE /\ pc' = "apply"
                /\ modified_code' = original_code
                /\ idx' = 0
                /\ UNCHANGED outcome
    /\ UNCHANGED <<original_code, llm_response, blocks, operations>>

\* valid, message = validate_operations(original_code, operations)
Validate ==
    /\ pc = "parsed"
    /\ operations # <<>>
    /\ LET v == validate_operations(original_code, operations)
       IN  IF ~v.valid
           THEN /\ outcome' = Outcome(original_code, FALSE,
                       <<"Invalid SEARCH/REPLACE operations">> \o v.message)
                /\ pc' = "done"
                /\ UNCHANGED <<modified_code, idx>>
           ELSE /\ pc' = "apply"
                /\ modified_code' = original_code
                /\ idx' = 0
                /\ UNCHANGED outcome
    /\ UNCHANGED <<original_code, llm_response, blocks, operations>>

\* One turn of the loop of apply_search_replace_operations.
ApplyNext ==
    /\ pc = "apply"
    /\ idx < Len(operations)
    /\ modified_code' = _apply_single_operation(modified_code, operations[idx + 1])
    /\ idx' = idx + 1
    /\ UNCHANGED <<pc, original_code, llm_response, blocks, operations, outcome>>

\* return modified_code, True, f"Applied {len(operations)} ..."
Finish ==
    /\ pc = "apply"
    /\ idx = Len(operations)
    /\ outcome' = Outcome(modified_code, TRUE, <<"Applied", Len(operations)>>)
    /\ pc' = "done"
    /\ UNCHANGED <<original_code, llm_response, blocks, operations,
                   modified_code, idx>>

Next == Parse \/ Fallback \/ Validate \/ ApplyNext \/ Finish

----------------------------------------------------------------------------
(* Spec: the whole call, on responses of edit blocks, of one code block    *)
(* and of plain text.                                                      *)

OrigAlphabet == {"a", "b", SP, NL}
MainSections == {<< <<"a">> >>, << <<"b">> >>, << <<SP, "a">> >>}
FenceTags == {<<>>, <<"rust">>, <<"verus">>, <<"python">>}
FenceAlphabet == {"a", SP, NL}

EditResponses(bs) == {render_blocks(bs), fenced(<<"rust">>, render_blocks(bs))}

CodeBlockResponses ==
    {fenced(tag, body) : tag \in FenceTags,
                         body \in TextsUpTo(FenceAlphabet, MaxFenceLen)}

PlainResponses == TextsUpTo(FenceAlphabet, MaxFenceLen)

Init ==
    /\ pc = "start"
    /\ original_code \in TextsUpTo(OrigAlphabet, MaxOrigLen)
    /\ blocks \in SeqsOf(BlocksOf(MainSections), 0, MaxOps)
    /\ llm_response \in (IF blocks = <<>>
                         THEN CodeBlockResponses \cup PlainResponses
                         ELSE EditResponses(blocks))
    /\ operations = <<>>
    /\ modified_code = <<>>
    /\ idx = 0
    /\ outcome = NoOutcome

Spec == Init /\ [][Next]_vars

----------------------------------------------------------------------------
(* SpecApply: validate_operations and apply_search_replace_operations on   *)
(* one operation, over all short targets, search texts and replace texts.  *)

ApplyAlphabet == {"a", SP, NL}

InitApply ==
    /\ pc = "parsed"
    /\ original_code \in TextsUpTo(ApplyAlphabet, MaxCodeLen)
    /\ \E s \in TextsUpTo(ApplyAlphabet, MaxSearchLen),
          r \in TextsUpTo(ApplyAlphabet, MaxReplaceLen) :
            operations = <<SearchReplaceOperation(s, r)>>
    /\ llm_response = <<>>
    /\ blocks = <<>>
    /\ modified_code = <<>>
    /\ idx = 0
    /\ outcome = NoOutcome

NextApply == Validate \/ ApplyNext \/ Finish

SpecApply == InitApply /\ [][NextApply]_vars

----------------------------------------------------------------------------
(* SpecParse: parse_search_replace_response on responses made of           *)
(* well-formed edit blocks whose sections hold any lines, also none.       *)

ParseLines == {<<>>, <<"a">>, <<SP, "a">>}

InitParse ==
    /\ pc = "start"
    /\ original_code = <<"a">>
    /\ blocks \in SeqsOf(BlocksOf(SeqsOf(ParseLines, 0, MaxSectionLines)), 1, MaxOps)
    /\ llm_response = render_blocks(blocks)
    /\ operations = <<>>
    /\ modified_code = <<>>
    /\ idx = 0
    /\ outcome = NoOutcome

NextParse == Parse

SpecParse == InitParse /\ [][NextParse]_vars

----------------------------------------------------------------------------
(* SpecIndent: as SpecApply, with replace texts long enough to hold a      *)
(* first line and an indented later line.                                  *)

InitIndent ==
    /\ pc = "parsed"
    /\ original_code \in TextsUpTo(ApplyAlphabet, MaxIndentCodeLen)
    /\ \E s \in TextsUpTo(ApplyAlphabet, MaxSearchLen),
          r \in TextsUpTo(ApplyAlphabet, MaxIndentReplaceLen) :
            operations = <<SearchReplaceOperation(s, r)>>
    /\ llm_response = <<>>
    /\ blocks = <<>>
    /\ modified_code = <<>>
    /\ idx = 0
    /\ outcome = NoOutcome

SpecIndent == InitIndent /\ [][NextApply]_vars

----------------------------------------------------------------------------
(* Notions the properties share. *)

\* The single operation of SpecApply and SpecIndent has just been applied.
AppliedOne == pc = "apply" /\ idx = 1 /\ Len(operations) = 1

TheOp == operations[1]

\* Offsets of the exact occurrences of s in t.
Occurrences(t, s) == {p \in 0..Len(t) : OccursAt(t, s, p)}

\* 0-based line indices of the windows of target lines that equal the
\* search lines after stripping each line.
Windows(t, s) ==
    LET cl == splitlines(t)
        sl == splitlines(s)
    IN  {i \in 0..(Len(cl) - Len(sl)) :
            \A j \in 1..Len(sl) : strip(sl[j]) = strip(cl[i + j])}

\* The operation resolves on the normalized path only.
NormalizedCase(t, s) == Occurrences(t, s) = {} /\ Windows(t, s) # {}

\* s occurs in t exactly or after per-line whitespace stripping.
Resolvable(t, s) == Occurrences(t, s) # {} \/ Windows(t, s) # {}

HasPrefix(t, s) == Len(s) <= Len(t) /\ SubSeq(t, 1, Len(s)) = s
HasSuffix(t, s) ==
    Len(s) <= Len(t) /\ SubSeq(t, Len(t) - Len(s) + 1, Len(t)) = s

----------------------------------------------------------------------------
(* C1: whenever the call returns success = false, the returned text is     *)
(* the original text, unchanged.                                           *)
C1_FailureKeepsOriginal ==
    (pc = "done" /\ ~outcome.success) => outcome.text = original_code

\* A validation failure on a target that differs from the empty text, and
\* a nothing-found failure, are both reached; the first is the witness.
C1_Witness ==
    /\ pc = "done"
    /\ ~outcome.success
    /\ operations # <<>>
    /\ original_code # <<>>
    /\ outcome.message[1] = "Invalid SEARCH/REPLACE operations"

----------------------------------------------------------------------------
(* C2: order sensitivity.  With two operations [op1, op2] where op2's      *)
(* search text does not resolve in the original text but resolves in the   *)
(* text op1 produces, the call succeeds and returns the text with both     *)
(* edits applied; with the two in the reverse order it fails validation.   *)
C2_OrderSensitivity ==
    (pc = "done" /\ Len(operations) = 2) =>
        LET op1 == operations[1]
            op2 == operations[2]
            after1 == _apply_single_operation(original_code, op1)
            after2 == _apply_single_operation(original_code, op2)
        IN  /\ (~Resolvable(original_code, op2.search_text)
                /\ Resolvable(after1, op2.search_text))
               => /\ outcome.success
                  /\ outcome.text = _apply_single_operation(after1, op2)
            /\ (~Resolvable(original_code, op1.search_text)
                /\ Resolvable(after2, op1.search_text))
               => ~outcome.success

----------------------------------------------------------------------------
(* C3: when validation of a non-empty operation sequence succeeds, every   *)
(* operation finds a target span in the text the operations before it      *)
(* produced, and the count of the success message is the number of         *)
(* operations that replaced a span.                                        *)
C3_Replaced ==
    {i \in 1..Len(operations) :
        Resolvable(apply_prefix(original_code, operations, i - 1),
                   operations[i].search_text)}

C3_EveryOperationApplied ==
    (pc = "done" /\ outcome.success /\ operations # <<>>) =>
        /\ C3_Replaced = 1..Len(operations)
        /\ outcome.message = <<"Applied", Cardinality(C3_Replaced)>>

----------------------------------------------------------------------------
----------------------------------------------------------------------------
(* C5: an operation whose search text equals its replace text leaves the   *)
(* target byte-identical, on the exact path and on the normalized path.    *)
C5_NoOpEditIsIdentity ==
    (AppliedOne /\ TheOp.search_text = TheOp.replace_text) =>
        modified_code = original_code

----------------------------------------------------------------------------
(* C6: when the response yields no edit operation and holds a fenced code  *)
(* block, with any language tag or none, the call returns the content of   *)
(* the first fenced block verbatim with success = true and the fallback    *)
(* message; the nothing-found failure is returned only when the response   *)
(* holds no fence at all.                                                  *)
C6_FallbackExtraction ==
    (pc = "done" /\ operations = <<>>) =>
        /\ \A tag \in FenceTags, body \in TextsUpTo(FenceAlphabet, MaxFenceLen) :
               llm_response = fenced(tag, body) =>
                   outcome = Outcome(body, TRUE,
                                     <<"Fallback to code block extraction">>)
        /\ outcome.message = <<"No SEARCH/REPLACE operations or code blocks found">>
               => \A k \in 1..Len(llm_response) : llm_response[k] # FENCE

----------------------------------------------------------------------------
----------------------------------------------------------------------------
(* C8: on a normalized-path replacement, with base_indent the leading      *)
(* whitespace width of the first matched target line, the first line of    *)
(* the replace text, if not blank, is emitted with exactly base_indent     *)
(* leading spaces; every later non-blank line with base_indent plus its    *)
(* own leading-whitespace width; blank lines are emitted as they are.      *)
C8_LeadingWidth(line) == Len(line) - Len(lstrip(line))

C8_IsBlank(line) == \A k \in 1..Len(line) : line[k] \in Whitespace

C8_Emitted(lines, base) ==
    [k \in 1..Len(lines) |->
        IF C8_IsBlank(lines[k]) THEN lines[k]
        ELSE IF k = 1
        THEN [n \in 1..base |-> SP] \o lstrip(lines[k])
        ELSE [n \in 1..(base + C8_LeadingWidth(lines[k])) |-> SP]
             \o lstrip(lines[k])]

C8_Reindentation ==
    (AppliedOne /\ NormalizedCase(original_code, TheOp.search_text)) =>
        LET cl == splitlines(original_code)
            i == Min(Windows(original_code, TheOp.search_text))
            n == Len(splitlines(TheOp.search_text))
            base == C8_LeadingWidth(cl[i + 1])
        IN  modified_code =
                join(SubSeq(cl, 1, i)
                     \o C8_Emitted(splitlines(TheOp.replace_text), base)
                     \o SubSeq(cl, i + n + 1, Len(cl)))

\* A window indented by one, a non-blank first line and a later non-blank
\* line that carries an indentation of its own.
C8_Witness ==
    /\ AppliedOne
    /\ NormalizedCase(original_code, TheOp.search_text)
    /\ LET cl == splitlines(original_code)
           rl == splitlines(TheOp.replace_text)
           i == Min(Windows(original_code, TheOp.search_text))
       IN  /\ C8_LeadingWidth(cl[i + 1]) > 0
           /\ Len(rl) > 1
           /\ ~C8_IsBlank(rl[1])
           /\ ~C8_IsBlank(rl[2])
           /\ C8_LeadingWidth(rl[2]) > 0

----------------------------------------------------------------------------
(* C9: for a response made of k well-formed edit blocks, whose search and  *)
(* replace sections hold any number of lines, also none, the parser        *)
(* returns exactly k operations in document order, the i-th carrying the   *)
(* search lines and the replace lines of the i-th block.                   *)
C9_ParserReturnsEveryBlock ==
    pc = "parsed" =>
        /\ Len(operations) = Len(blocks)
        /\ \A i \in 1..Len(blocks) :
               i <= Len(operations) =>
                   /\ operations[i].search_text = join(blocks[i].search_lines)
                   /\ operations[i].replace_text = join(blocks[i].replace_lines)

----------------------------------------------------------------------------
(* C10: a single applied operation preserves everything outside the        *)
(* replaced span: on the exact path the text before and behind the chosen  *)
(* occurrence; on the normalized path every target line outside the        *)
(* matched window, with its line terminator, and the target's trailing     *)
(* newline.                                                                *)

\* The text of the lines before line i (0-based), terminators included.
C10_LinesBefore(t, i) == lines_nl(SubSeq(splitlines(t), 1, i))

\* The text from the start of line i (0-based) to the end of t.
C10_LinesFrom(t, i) ==
    SubSeq(t, Len(C10_LinesBefore(t, i)) + 1, Len(t))

C10_FramePreserved ==
    AppliedOne =>
        LET s == TheOp.search_text
            occ == Occurrences(original_code, s)
            win == Windows(original_code, s)
        IN  /\ occ # {} =>
                  /\ HasPrefix(modified_code, SubSeq(original_code, 1, Min(occ)))
                  /\ HasSuffix(modified_code,
                         SubSeq(original_code, Min(occ) + Len(s) + 1,
                                Len(original_code)))
            /\ NormalizedCase(original_code, s) =>
                  LET before == C10_LinesBefore(original_code, Min(win))
                      behind == C10_LinesFrom(original_code,
                                    Min(win) + Len(splitlines(s)))
                  IN  /\ HasPrefix(modified_code, before)
                      /\ HasSuffix(modified_code, behind)
                      /\ Len(modified_code) >= Len(before) + Len(behind)
                      /\ (original_code # <<>>
                          /\ original_code[Len(original_code)] = NL)
                         => (modified_code # <<>>
                             /\ modified_code[Len(modified_code)] = NL)

====
